---- MODULE Spec2Model ----
(***************************************************************************)
(* State-machine model of the sound engine, src/lib/sound/SoundManager.ts. *)
(*                                                                         *)
(* Units.  One tick of the two clocks is 100 ms.  Gains and volumes are    *)
(* integers in hundredths (0.5 is 50, 0.7 is 70, 1.0 is 100).  A value     *)
(* read in the middle of a linear ramp is rounded up to the next           *)
(* hundredth, so a gain is 0 in the model exactly when it is 0 on the      *)
(* device, and the end value of a ramp is exact.                           *)
(*                                                                         *)
(* The engine is single-threaded.  An async method runs until its next     *)
(* `await`; the rest of it is a continuation.  A continuation that waits   *)
(* for an already settled promise sits in the FIFO microtask queue         *)
(* (microQ); one that waits for the network (fetch) may resume at any      *)
(* later moment.  Timers and the clocks only move when the microtask queue *)
(* is empty.  Callers call from event handlers and effects, which run      *)
(* before the microtasks their calls queue (draining is FALSE).            *)
(*                                                                         *)
(* The state keeps what can still matter: an automation timeline drops the *)
(* events that lie before its last event at or before the current time, a  *)
(* stopped source and a returned call keep only their slot.                *)
(***************************************************************************)
EXTENDS Integers, Sequences, FiniteSets, TLC

VARIABLES
    now,                    \* timer clock (setTimeout), in ticks
    currentTime,            \* audioContext.currentTime, in ticks
    audioContext,           \* "null" | "suspended" | "running" | "closed"
    masterGain,             \* TRUE iff this.masterGain is a node
    ambientGain,            \* TRUE iff this.ambientGain is a node
    uiGain,                 \* TRUE iff this.uiGain is a node
    masterEvents,           \* automation timeline of masterGain.gain
    ambientEvents,          \* automation timeline of ambientGain.gain
    uiGainValue,            \* uiGain.gain.value
    sources,                \* every AudioBufferSourceNode created so far
    currentAmbientSource,   \* index into sources, 0 for null
    currentAmbientBuffer,   \* the buffer of the current source, or NullBuffer
    loadedBuffers,          \* the cache: url -> buffer (NullBuffer: no entry)
    state,                  \* [enabled, volume, currentAmbience]
    storage,                \* localStorage['soundState'], or "absent"
    calls,                  \* every playAmbient / playUI call made so far
    microQ,                 \* FIFO of call ids whose continuation is runnable
    draining,               \* TRUE while the microtask queue is being drained
    timers,                 \* pending setTimeout callbacks: [src, due]
    initPc,                 \* where the constructing initialize() is: "idle"
                            \* (not called), "resuming" (at its await),
                            \* "returned" (logged Initialized), "caught"
                            \* (logged Failed to initialize)
    nodesCreated,           \* [ctx, gain]: constructions done by initialize()
    lastOp,                 \* the last public call: name, argument, when
    instance,               \* TRUE iff SoundManager.instance is this engine
    returned,               \* the object getState() last returned
    hooks                   \* the useSound() instances of the components

vars == <<now, currentTime, audioContext, masterGain, ambientGain, uiGain,
          masterEvents, ambientEvents, uiGainValue, sources,
          currentAmbientSource, currentAmbientBuffer, loadedBuffers, state,
          storage, calls, microQ, draining, timers, initPc, nodesCreated,
          lastOp, instance, returned, hooks>>

\* The engine and its platform: every variable but the hook instances.
engineVars == <<now, currentTime, audioContext, masterGain, ambientGain,
                uiGain, masterEvents, ambientEvents, uiGainValue, sources,
                currentAmbientSource, currentAmbientBuffer, loadedBuffers,
                state, storage, calls, microQ, draining, timers, initPc,
                nodesCreated, lastOp, instance, returned>>

graphVars == <<audioContext, masterGain, ambientGain, uiGain, uiGainValue,
               initPc, nodesCreated>>
clockVars == <<now, currentTime>>

---------------------------------------------------------------------------
(* Bounds of the model. *)

\* For each specification, the tick at which the clocks stop and the number
\* of public calls made in one behaviour.
MaxTime == 6
MaxCalls == 3
MaxSessionTime == 5
MaxSessionCalls == 3
MaxLifeTime == 2
MaxLifeCalls == 3
MaxLoadTime == 1
MaxLoadCalls == 2
MaxPrefsTime == 2
MaxPrefsCalls == 3
MaxRestartTime == 3
MaxDisposeTime == 2
MaxDisposeCalls == 3
MaxScenarioTime == 24
MaxOverlapCalls == 3
MaxSnapshotCalls == 3
MaxStopTime == 3
MaxStopCalls == 3
MaxMasterTime == 5
MaxMasterCalls == 3
MaxInterleaveTime == 2
MaxInterleaveCalls == 4
MaxInFlightTime == 1
MaxInFlightCalls == 3
MaxHookCalls == 3
MaxHookPlays == 2
MaxRestartCalls == 4

(* Program constants. *)

DefaultVolume == 70          \* state.volume: 0.7
AmbientBusGain == 50         \* ambientGain.gain.value = 0.5
UiBusGain == 30              \* uiGain.gain.value = 0.3
NodeDefaultGain == 100       \* a fresh GainNode's gain is 1
VolumeRampTicks == 1         \* setVolume ramps over 0.1 s
FullVolume == 100            \* Math.min(1, volume)
EnableRampTicks == 3         \* setEnabled: now + 0.3
DisableFadeTicks == 5        \* setEnabled: stopAmbient(500)

AmbienceType == {"nature", "city", "ancient", "default"}
UISoundType == {"hover", "click", "success"}

\* AMBIENT_SOUNDS[type]; a key outside the record reads as undefined.
AMBIENT_SOUNDS(type) ==
    CASE type = "nature" -> "/sounds/ambient/nature.mp3"
      [] type = "city" -> "/sounds/ambient/city.mp3"
      [] type = "ancient" -> "/sounds/ambient/ancient.mp3"
      [] type = "default" -> "/sounds/ambient/default.mp3"
      [] OTHER -> "undefined"

UI_SOUNDS(type) ==
    CASE type = "hover" -> "/sounds/ui/hover.mp3"
      [] type = "click" -> "/sounds/ui/click.mp3"
      [] type = "success" -> "/sounds/ui/success.mp3"
      [] OTHER -> "undefined"

Urls == {AMBIENT_SOUNDS(t) : t \in AmbienceType} \cup
        {UI_SOUNDS(t) : t \in UISoundType} \cup {"undefined"}

---------------------------------------------------------------------------
(* AudioParam automation: the events of one parameter, ordered by time and, *)
(* at equal times, by insertion.                                            *)

SetEv(v, t) == [k |-> "set", v |-> v, t |-> t]
RampEv(v, t) == [k |-> "ramp", v |-> v, t |-> t]

\* Number of events of ev at or before time t.
UpTo(ev, t) == Cardinality({i \in 1..Len(ev) : ev[i].t <= t})

\* An event is placed after the events at or before its time.
InsertEvent(ev, e) ==
    LET n == UpTo(ev, e.t)
    IN  SubSeq(ev, 1, n) \o <<e>> \o SubSeq(ev, n + 1, Len(ev))

\* setValueAtTime(v, t) / linearRampToValueAtTime(v, t)
setValueAtTime(ev, v, t) == InsertEvent(ev, SetEv(v, t))
linearRampToValueAtTime(ev, v, t) == InsertEvent(ev, RampEv(v, t))

\* Ceiling of a / b for a >= 0, b > 0.
CeilDiv(a, b) == (a + b - 1) \div b

\* The parameter's value at time t: the last event at or before t holds,
\* unless the next event is a linear ramp, which interpolates from it.
ValueAt(ev, t) ==
    LET n == UpTo(ev, t)
    IN  IF n = 0 THEN NodeDefaultGain
        ELSE IF n < Len(ev) /\ ev[n + 1].k = "ramp"
             THEN LET a == ev[n]
                      b == ev[n + 1]
                  IN  CeilDiv(a.v * (b.t - a.t) + (b.v - a.v) * (t - a.t),
                              b.t - a.t)
             ELSE ev[n].v

\* The events that can still affect the value from time t on: the last one
\* at or before t, and the later ones.
LiveEvents(ev, t) ==
    LET n == UpTo(ev, t)
    IN  IF n <= 1 THEN ev ELSE SubSeq(ev, n, Len(ev))

\* The latest time any event of the timeline is scheduled for.
LastEventTime(ev) ==
    IF Len(ev) = 0 THEN 0
    ELSE CHOOSE t \in {ev[i].t : i \in 1..Len(ev)} :
             \A i \in 1..Len(ev) : ev[i].t <= t

---------------------------------------------------------------------------
(* Buffers, sources, calls. *)

\* An AudioBuffer: where it came from, what it holds (the URL it was decoded
\* from, or the kind it was synthesized for) and, if synthesized, its length.
NullBuffer == [origin |-> "null", kind |-> "", ms |-> 0]
DecodedBuffer(url) == [origin |-> "decoded", kind |-> url, ms |-> 0]
FallbackBuffer(type, ms) == [origin |-> "fallback", kind |-> type, ms |-> ms]

\* The slot of a source that was stopped, and of a call that has returned.
StoppedSource ==
    [bus |-> "ambient", cat |-> "", buffer |-> NullBuffer, loop |-> FALSE,
     playing |-> FALSE, startedAt |-> 0, half |-> 0]
DoneCall ==
    [op |-> "", type |-> "", dur |-> 0, url |-> "", pc |-> "done",
     buffer |-> NullBuffer, fetchFailed |-> FALSE]

NullAmbience == "null"

\* lastOp before any public call.
NoOp ==
    [op |-> "none", arg |-> "", at |-> 0, src |-> 0, n |-> 0,
     threw |-> FALSE, saved |-> TRUE]

\* The record of a public call: its name and argument, the audio time it was
\* made at, the current ambient source it found, its number, whether it
\* threw, and whether its write to the preference store (if any) succeeded.
Op(name, arg) ==
    [op |-> name, arg |-> arg, at |-> currentTime,
     src |-> currentAmbientSource, n |-> lastOp.n + 1,
     threw |-> FALSE, saved |-> TRUE]

\* Indices of the ambient sources that were started and not stopped.
PlayingAmbient ==
    {i \in 1..Len(sources) : sources[i].bus = "ambient" /\ sources[i].playing}

\* ambientGain.gain.value, as read at the current audio time.
AmbientGainNow == ValueAt(ambientEvents, currentTime)

---------------------------------------------------------------------------
(* JavaScript values, as far as the preferences can hold them: a boolean, a
   number (in hundredths), a string that is not a number, null, undefined. *)

JSBool(b) == [t |-> "boolean", b |-> b, n |-> 0]
JSNum(n) == [t |-> "number", b |-> FALSE, n |-> n]
JSString == [t |-> "string", b |-> FALSE, n |-> 0]
JSNull == [t |-> "null", b |-> FALSE, n |-> 0]
JSUndefined == [t |-> "undefined", b |-> FALSE, n |-> 0]

\* ToBoolean(v)
Truthy(v) ==
    \/ v.t = "boolean" /\ v.b
    \/ v.t = "number" /\ v.n # 0
    \/ v.t = "string"

\* v is a value a float parameter of the audio API accepts.
IsNumber(v) == v.t = "number"

\* `v ?? d`
Coalesce(v, d) == IF v.t \in {"null", "undefined"} THEN d ELSE v

---------------------------------------------------------------------------
(* Preference store.  The stored item is absent, a text JSON.parse rejects,
   the text "null", the text of another JSON value that is not an object, or
   the text of an object; a field the object lacks reads as undefined. *)

AbsentBlob == [kind |-> "absent", enabled |-> JSUndefined, volume |-> JSUndefined]

\* A saveToStorage that writes the enabled flag only.
saveEnabledOnly(st) ==
    [kind |-> "object", enabled |-> st.enabled, volume |-> JSUndefined]

\* saveToStorage(): the blob written for the in-memory state st.
saveToStorage(st) ==
    [kind |-> "object", enabled |-> st.enabled, volume |-> st.volume]

\* The defaults of the state field.
DefaultState ==
    [enabled |-> JSBool(FALSE), volume |-> JSNum(DefaultVolume),
     currentAmbience |-> NullAmbience]

\* No object was returned by getState() yet.
NothingReturned == [held |-> FALSE, alias |-> FALSE, val |-> DefaultState]

\* A getState that returns this.state itself.
getStateLive(st) == [held |-> TRUE, alias |-> TRUE, val |-> st]

\* getState(): { ...this.state }, a new object with the three fields of the
\* state, none of which holds an object.
getState(st) == [held |-> TRUE, alias |-> FALSE, val |-> st]

\* What the caller reads in the returned object: the state itself when the
\* object is the state, the copied fields otherwise.
ReturnedValue == IF returned.alias THEN state ELSE returned.val

\* initializeFromStorage(): the state a new engine starts with.  Reading a
\* property of null throws, which the catch block swallows before anything
\* was assigned.
initializeFromStorage(blob) ==
    IF blob.kind \in {"absent", "empty", "unparsable", "null"}
    THEN DefaultState
    ELSE [enabled |-> Coalesce(blob.enabled, JSBool(FALSE)),
          volume |-> Coalesce(blob.volume, JSNum(DefaultVolume)),
          currentAmbience |-> NullAmbience]

\* Values of the two fields of a stored object: lacking, null, of the wrong
\* type, and for the volume numbers inside and outside [0, 1].
StoredEnabled == {JSUndefined, JSNull, JSString, JSBool(TRUE), JSBool(FALSE)}
StoredVolumes ==
    {JSUndefined, JSNull, JSString} \cup
    {JSNum(n) : n \in {0 - FullVolume, 0, 25, DefaultVolume, FullVolume,
                       5 * FullVolume}}

\* Every stored item: no item, the empty text, a text JSON.parse rejects,
\* "null", another JSON value that is no object, an object.
AllBlobs ==
    {[kind |-> k, enabled |-> JSUndefined, volume |-> JSUndefined] :
        k \in {"absent", "empty", "unparsable", "null", "nonobject"}} \cup
    {[kind |-> "object", enabled |-> e, volume |-> v] :
        e \in StoredEnabled, v \in StoredVolumes}

\* Blobs a previous session of the engine can have left behind.
StoredBlobs ==
    {AbsentBlob} \cup
    {[kind |-> "object", enabled |-> JSBool(e), volume |-> JSNum(DefaultVolume)] :
        e \in BOOLEAN}

---------------------------------------------------------------------------
(* The state after construction (getInstance() -> new SoundManager()). *)

\* The components that call useSound(), each with a hook instance of its own.
Hooks == {"LandingExperience", "AmbientPlayer"}

\* A hook instance before its component is mounted: soundManagerRef.current
\* is null (ref), isInitialized is false, and so is the isInitialized that
\* the playAmbient and playUI callbacks of the last render closed over
\* (created).  awaiting: where its initialize() is; called: whether it ever
\* called initialize(); plays: the calls of its play callbacks so far.
NoHooks ==
    [h \in Hooks |-> [ref |-> FALSE, isInitialized |-> FALSE,
                      created |-> FALSE, awaiting |-> "none",
                      called |-> FALSE, plays |-> 0]]

Constructed ==
    /\ now = 0
    /\ currentTime = 0
    /\ audioContext = "null"
    /\ masterGain = FALSE
    /\ ambientGain = FALSE
    /\ uiGain = FALSE
    /\ masterEvents = <<>>
    /\ ambientEvents = <<>>
    /\ uiGainValue = NodeDefaultGain
    /\ sources = <<>>
    /\ currentAmbientSource = 0
    /\ currentAmbientBuffer = NullBuffer
    /\ loadedBuffers = [u \in Urls |-> NullBuffer]
    /\ state = initializeFromStorage(storage)
    /\ calls = <<>>
    /\ microQ = <<>>
    /\ draining = FALSE
    /\ timers = <<>>
    /\ initPc = "idle"
    /\ nodesCreated = [ctx |-> 0, gain |-> 0]
    /\ lastOp = NoOp
    /\ instance = TRUE
    /\ returned = NothingReturned
    /\ hooks = NoHooks

\* An engine constructed over what an earlier session of it stored.
Init == storage \in StoredBlobs /\ Constructed

\* An engine constructed over any stored item.
InitPrefs == storage \in AllBlobs /\ Constructed

\* The page is loaded again: the engine and its audio graph are gone, a new
\* engine is constructed over the preference store.
Reload ==
    /\ now' = 0
    /\ currentTime' = 0
    /\ audioContext' = "null"
    /\ masterGain' = FALSE
    /\ ambientGain' = FALSE
    /\ uiGain' = FALSE
    /\ masterEvents' = <<>>
    /\ ambientEvents' = <<>>
    /\ uiGainValue' = NodeDefaultGain
    /\ sources' = <<>>
    /\ currentAmbientSource' = 0
    /\ currentAmbientBuffer' = NullBuffer
    /\ loadedBuffers' = [u \in Urls |-> NullBuffer]
    /\ state' = initializeFromStorage(storage)
    /\ calls' = <<>>
    /\ microQ' = <<>>
    /\ draining' = FALSE
    /\ timers' = <<>>
    /\ initPc' = "idle"
    /\ nodesCreated' = [ctx |-> 0, gain |-> 0]
    /\ lastOp' = [Op("reload", "") EXCEPT !.at = 0, !.src = 0]
    /\ instance' = TRUE
    /\ returned' = NothingReturned
    /\ hooks' = NoHooks
    /\ UNCHANGED storage

---------------------------------------------------------------------------
(* initialize() *)

\* The steps of initialize() at which construction can fail; "none": it does not.
InitFailures == {"none", "ctx", "gain1", "gain2", "gain3", "connect"}

\* How many gain nodes exist when initialize() fails at step f.
GainsMadeBefore(f) ==
    CASE f = "ctx" -> 0
      [] f = "gain1" -> 0
      [] f = "gain2" -> 1
      [] f = "gain3" -> 2
      [] OTHER -> 3

\* An initialize() that constructs on every call.
NeverInitialized == FALSE

\* "if (this.audioContext) return;"
AlreadyInitialized == audioContext # "null"

\* The step at which initialize() throws when the platform fails it at f:
\* with nothing failing, the assignment of a volume that is no number to
\* masterGain.gain.value throws a TypeError.
ThrowsAt(f) ==
    IF f = "none" /\ Truthy(state.enabled) /\ ~IsNumber(state.volume)
    THEN "value" ELSE f

\* initialize(), up to its await of resume() or to its end.  f is the step
\* that throws, ctxState the state the platform creates the context in.
initialize(f, ctxState) ==
    /\ lastOp' = Op("initialize",
                    IF AlreadyInitialized THEN "noop" ELSE ThrowsAt(f))
    /\ IF AlreadyInitialized
       THEN UNCHANGED <<graphVars, masterEvents, ambientEvents>>
       ELSE IF f = "ctx"
       THEN /\ initPc' = "caught"
            /\ UNCHANGED <<audioContext, masterGain, ambientGain, uiGain,
                           uiGainValue, nodesCreated, masterEvents,
                           ambientEvents>>
       ELSE /\ audioContext' = ctxState
            /\ masterGain' = (GainsMadeBefore(f) >= 1)
            /\ ambientGain' = (GainsMadeBefore(f) >= 2)
            /\ uiGain' = (GainsMadeBefore(f) >= 3)
            /\ nodesCreated' = [ctx |-> nodesCreated.ctx + 1,
                                gain |-> nodesCreated.gain + GainsMadeBefore(f)]
            /\ IF ThrowsAt(f) = "none"
               THEN /\ masterEvents' =
                        setValueAtTime(masterEvents,
                            IF Truthy(state.enabled)
                            THEN state.volume.n ELSE 0,
                            currentTime)
                    /\ ambientEvents' =
                        setValueAtTime(ambientEvents, AmbientBusGain, currentTime)
                    /\ uiGainValue' = UiBusGain
                    /\ initPc' = IF ctxState = "suspended"
                                 THEN "resuming" ELSE "returned"
               ELSE /\ initPc' = "caught"
                    /\ UNCHANGED <<masterEvents, ambientEvents, uiGainValue>>
    /\ UNCHANGED <<returned, instance,
                   clockVars, sources, currentAmbientSource,
                   currentAmbientBuffer, loadedBuffers, state, storage, calls,
                   microQ, draining, timers>>

\* initialize() called by anything but a hook instance.
Initialize(f, ctxState) == initialize(f, ctxState) /\ UNCHANGED hooks

\* audioContext.resume() settles: the context runs, or the rejection is
\* caught and logged and the context stays suspended.
ResumeSettle(ok) ==
    /\ initPc = "resuming"
    /\ microQ = <<>>
    /\ initPc' = IF ok THEN "returned" ELSE "caught"
    /\ audioContext' = IF ok /\ audioContext = "suspended"
                       THEN "running" ELSE audioContext
    /\ UNCHANGED <<hooks, returned, instance,
                   clockVars, masterGain, ambientGain, uiGain, masterEvents,
                   ambientEvents, uiGainValue, sources, currentAmbientSource,
                   currentAmbientBuffer, loadedBuffers, state, storage, calls,
                   microQ, draining, timers, nodesCreated, lastOp>>

---------------------------------------------------------------------------
(* loadSound() and generateFallbackSound() *)

\* A generateFallbackSound that synthesizes the ambience only.
FallbackWithoutCues(type) ==
    IF audioContext = "null" THEN NullBuffer
    ELSE IF type \in {"nature", "city", "ancient", "default"}
         THEN FallbackBuffer(type, 2000)
         ELSE NullBuffer

\* generateFallbackSound(type): the synthesized buffer (its length in ms);
\* NullBuffer without a context or for an unknown type.
generateFallbackSound(type) ==
    IF audioContext = "null" THEN NullBuffer
    ELSE CASE type = "hover" -> FallbackBuffer(type, 50)
           [] type = "click" -> FallbackBuffer(type, 50)
           [] type = "success" -> FallbackBuffer(type, 400)
           [] type \in {"nature", "city", "ancient", "default"} ->
                FallbackBuffer(type, 2000)
           [] OTHER -> NullBuffer

\* A loadSound whose catch block returns null.
LoadWithoutFallback(url, type, ok) ==
    IF ok THEN DecodedBuffer(url) ELSE NullBuffer

\* What loadSound(url, type) returns once its fetch has settled: the decoded
\* asset, or in the catch block the fallback for a non-empty type.
LoadResult(url, type, ok) ==
    IF ok THEN DecodedBuffer(url)
    ELSE IF type # "" THEN generateFallbackSound(type)
    ELSE NullBuffer

\* The cache after that settlement: loadedBuffers.set(url, buffer) on both
\* paths, nothing when there is no buffer.
CacheAfterLoad(url, buf) ==
    IF buf # NullBuffer THEN [loadedBuffers EXCEPT ![url] = buf]
    ELSE loadedBuffers

\* No asset is served at the URL of an unknown name: its fetch fails.
FetchOutcomes(url) == IF url = "undefined" THEN {FALSE} ELSE BOOLEAN

\* The record of an asynchronous play call at its first await.
NewCall(op, type, dur, url) ==
    [op |-> op, type |-> type, dur |-> dur, url |-> url,
     pc |-> IF loadedBuffers[url] # NullBuffer THEN "afterLoad" ELSE "fetching",
     buffer |-> loadedBuffers[url], fetchFailed |-> FALSE]

\* A play call passes its guard and calls loadSound(): a cached buffer is
\* returned through a settled promise, otherwise the fetch starts.
StartLoad(op, type, dur, url) ==
    /\ calls' = Append(calls, NewCall(op, type, dur, url))
    /\ microQ' = IF loadedBuffers[url] # NullBuffer
                 THEN Append(microQ, Len(calls) + 1) ELSE microQ
    /\ UNCHANGED draining

\* The fetch (and decode) of call id settles; loadSound() caches and returns.
FetchSettle(id, ok) ==
    /\ id \in 1..Len(calls)
    /\ calls[id].pc = "fetching"
    /\ microQ = <<>>
    /\ ok \in FetchOutcomes(calls[id].url)
    /\ LET buf == LoadResult(calls[id].url, calls[id].type, ok)
       IN  /\ loadedBuffers' = CacheAfterLoad(calls[id].url, buf)
           /\ calls' = [calls EXCEPT ![id].pc = "afterLoad",
                                     ![id].buffer = buf,
                                     ![id].fetchFailed = ~ok]
    /\ microQ' = <<id>>
    /\ draining' = TRUE
    /\ UNCHANGED <<hooks, returned, instance,
                   clockVars, graphVars, masterEvents, ambientEvents, sources,
                   currentAmbientSource, currentAmbientBuffer, state, storage,
                   timers, lastOp>>

---------------------------------------------------------------------------
(* playAmbient() and crossfadeAmbient() *)

\* Crossfade and fade lengths a caller passes, in ticks.  A crossfade is
\* halved by the code, so these are even.
Durations == {2, 6}
ShortCrossfades == {2}
Fades == {2}
PlayTypes == {"nature", "city"}

\* A source that loops on the ambient bus, whatever was asked for.
NewLoopingSource(bus, cat, buf, loop, half) ==
    [bus |-> "ambient", cat |-> cat, buffer |-> buf, loop |-> TRUE,
     playing |-> TRUE, startedAt |-> currentTime, half |-> half]

\* A source node created by createBufferSource() and started, for a call of
\* category (or cue) cat; an ambient source notes when its crossfade began
\* and the half-period of it.
NewSource(bus, cat, buf, loop, half) ==
    [bus |-> bus, cat |-> cat, buffer |-> buf, loop |-> loop, playing |-> TRUE,
     startedAt |-> currentTime, half |-> half]

\* The ambient-bus timeline after the "fade out current" block: anchored at
\* the live gain, ramped to 0 over half the duration.
FadeOutCurrent(ev, duration) ==
    linearRampToValueAtTime(
        setValueAtTime(ev, ValueAt(ev, currentTime), currentTime),
        0, currentTime + duration \div 2)

\* The ambient-bus timeline after the "fade in new" block: 0 at half the
\* duration, then a ramp to 0.5 at the full duration.
FadeInNew(ev, duration) ==
    linearRampToValueAtTime(
        setValueAtTime(ev, 0, currentTime + duration \div 2),
        AmbientBusGain, currentTime + duration)

\* A timer whose callback stops the source being started, not the old one.
StopNewTimer(duration) ==
    [src |-> Len(sources) + 1, due |-> now + duration \div 2]

\* A timer that stops the old source after the whole duration.
StopOldAtEnd(duration) ==
    [src |-> currentAmbientSource, due |-> now + duration]

\* The timer that stops the old source after half the duration.
StopOldTimer(duration) ==
    [src |-> currentAmbientSource, due |-> now + duration \div 2]

\* crossfadeAmbient(newBuffer, duration), called by playAmbient(cat, ...).
crossfadeAmbient(newBuffer, duration, cat) ==
    IF audioContext = "null" \/ ~ambientGain
    THEN UNCHANGED <<ambientEvents, timers, sources, currentAmbientSource,
                     currentAmbientBuffer>>
    ELSE /\ ambientEvents' =
               FadeInNew(IF currentAmbientSource # 0
                         THEN FadeOutCurrent(ambientEvents, duration)
                         ELSE ambientEvents,
                         duration)
         /\ timers' = IF currentAmbientSource # 0
                      THEN Append(timers, StopOldTimer(duration))
                      ELSE timers
         /\ sources' = Append(sources,
                NewSource("ambient", cat, newBuffer, TRUE, duration \div 2))
         /\ currentAmbientSource' = Len(sources) + 1
         /\ currentAmbientBuffer' = newBuffer

\* playAmbient's guard: sound enabled and the graph present.
PlayAmbientGuard == Truthy(state.enabled) /\ audioContext # "null" /\ ambientGain

\* "If same ambience, don't restart."
SameAmbience(type) ==
    state.currentAmbience = type /\ currentAmbientSource # 0

\* playAmbient(type, crossfadeDuration), up to its first await.
playAmbient(type, duration) ==
    /\ lastOp' = Op("playAmbient", type)
    /\ IF PlayAmbientGuard
       THEN StartLoad("playAmbient", type, duration, AMBIENT_SOUNDS(type))
       ELSE UNCHANGED <<calls, microQ, draining>>
    /\ UNCHANGED <<returned, instance,
                   clockVars, graphVars, masterEvents, ambientEvents, sources,
                   currentAmbientSource, currentAmbientBuffer, loadedBuffers,
                   state, storage, timers>>

\* playAmbient() called by anything but a hook instance.
PlayAmbient(type, duration) == playAmbient(type, duration) /\ UNCHANGED hooks

\* playAmbient after `await this.loadSound(...)`: return without a buffer or
\* for the same ambience, otherwise crossfade and await its promise.
AmbientAfterLoad(id) ==
    LET c == calls[id]
    IN  IF c.buffer = NullBuffer
        THEN /\ calls' = [calls EXCEPT ![id] = DoneCall]
             /\ microQ' = Tail(microQ)
             /\ UNCHANGED <<ambientEvents, timers, sources,
                            currentAmbientSource, currentAmbientBuffer>>
        ELSE IF SameAmbience(c.type)
        THEN /\ calls' = [calls EXCEPT ![id] = DoneCall]
             /\ microQ' = Tail(microQ)
             /\ UNCHANGED <<ambientEvents, timers, sources,
                            currentAmbientSource, currentAmbientBuffer>>
        ELSE /\ crossfadeAmbient(c.buffer, c.dur, c.type)
             /\ calls' = [calls EXCEPT ![id].pc = "afterCrossfade"]
             /\ microQ' = Append(Tail(microQ), id)

\* playAmbient after `await this.crossfadeAmbient(...)`.
AmbientAfterCrossfade(id) ==
    /\ state' = [state EXCEPT !.currentAmbience = calls[id].type]
    /\ calls' = [calls EXCEPT ![id] = DoneCall]
    /\ microQ' = Tail(microQ)

\* playUI after `await this.loadSound(...)`.
UIAfterLoad(id) ==
    LET c == calls[id]
    IN  /\ microQ' = Tail(microQ)
        /\ calls' = [calls EXCEPT ![id] = DoneCall]
        /\ sources' = IF c.buffer = NullBuffer THEN sources
                      ELSE Append(sources,
                               NewSource("ui", c.type, c.buffer, FALSE, 0))

\* The microtask at the head of the queue runs to its next await.
MicroStep ==
    /\ microQ # <<>>
    /\ LET id == Head(microQ)
       IN  \/ /\ calls[id].op = "playAmbient"
              /\ calls[id].pc = "afterLoad"
              /\ AmbientAfterLoad(id)
              /\ UNCHANGED state
           \/ /\ calls[id].op = "playAmbient"
              /\ calls[id].pc = "afterCrossfade"
              /\ AmbientAfterCrossfade(id)
              /\ UNCHANGED <<ambientEvents, timers, sources,
                             currentAmbientSource, currentAmbientBuffer>>
           \/ /\ calls[id].op = "playUI"
              /\ calls[id].pc = "afterLoad"
              /\ UIAfterLoad(id)
              /\ UNCHANGED <<ambientEvents, timers, currentAmbientSource,
                             currentAmbientBuffer, state>>
    /\ draining' = (microQ' # <<>>)
    /\ UNCHANGED <<hooks, returned, instance,
                   clockVars, graphVars, masterEvents, loadedBuffers, storage,
                   lastOp>>

\* playUI's guard.
PlayUIGuard == Truthy(state.enabled) /\ audioContext # "null" /\ uiGain

\* playUI(type), up to its first await.
playUI(type) ==
    /\ lastOp' = Op("playUI", type)
    /\ IF PlayUIGuard
       THEN StartLoad("playUI", type, 0, UI_SOUNDS(type))
       ELSE UNCHANGED <<calls, microQ, draining>>
    /\ UNCHANGED <<returned, instance,
                   clockVars, graphVars, masterEvents, ambientEvents, sources,
                   currentAmbientSource, currentAmbientBuffer, loadedBuffers,
                   state, storage, timers>>

\* playUI() called by anything but a hook instance.
PlayUI(type) == playUI(type) /\ UNCHANGED hooks

---------------------------------------------------------------------------
(* stopAmbient(), setEnabled() *)

\* stopAmbient's guard.
StopAmbientGuard ==
    audioContext # "null" /\ ambientGain /\ currentAmbientSource # 0

\* A stopAmbient that fades to the bus gain instead of to silence.
FadeToBusGain(ev, fade) ==
    linearRampToValueAtTime(
        setValueAtTime(ev, ValueAt(ev, currentTime), currentTime),
        AmbientBusGain, currentTime + fade)

\* The ambient-bus timeline after stopAmbient(fade): anchored at the live
\* gain, ramped to 0 over the fade.
FadeToSilence(ev, fade) ==
    linearRampToValueAtTime(
        setValueAtTime(ev, ValueAt(ev, currentTime), currentTime),
        0, currentTime + fade)

\* stopAmbient(fadeDuration) applied when the in-memory state is st.
stopAmbient(st, fade) ==
    IF StopAmbientGuard
    THEN /\ ambientEvents' = FadeToSilence(ambientEvents, fade)
         /\ timers' = Append(timers,
                [src |-> currentAmbientSource, due |-> now + fade])
         /\ currentAmbientSource' = 0
         /\ currentAmbientBuffer' = NullBuffer
         /\ state' = [st EXCEPT !.currentAmbience = NullAmbience]
    ELSE /\ state' = st
         /\ UNCHANGED <<ambientEvents, timers, currentAmbientSource,
                        currentAmbientBuffer>>

StopAmbient(fade) ==
    /\ lastOp' = [Op("stopAmbient", "") EXCEPT !.arg = fade]
    /\ stopAmbient(state, fade)
    /\ UNCHANGED <<hooks, returned, instance,
                   clockVars, graphVars, masterEvents, sources,
                   loadedBuffers, storage, calls, microQ, draining>>

\* The master-gain timeline after setEnabled's ramp to target.
MasterRamp(ev, target, ticks) ==
    linearRampToValueAtTime(
        setValueAtTime(ev, ValueAt(ev, currentTime), currentTime),
        target, currentTime + ticks)

\* A setEnabled that stops the ambience with stopAmbient's default fade.
DisableFadeDefault == 2 * DisableFadeTicks

\* The fade setEnabled(false) passes to stopAmbient.
DisableFade == DisableFadeTicks

\* The preference store after saveToStorage() for the state st: a failing
\* setItem throws, the catch block swallows it and the item stays as it was.
StorageAfterSave(st, ok) == IF ok THEN saveToStorage(st) ELSE storage

\* A ramp block that schedules the anchor and no ramp.
MasterAnchorOnly(target, ticks) ==
    setValueAtTime(masterEvents, ValueAt(masterEvents, currentTime),
                   currentTime)

\* The master-gain timeline after the ramp block of setEnabled or setVolume:
\* the anchor, then the ramp; linearRampToValueAtTime throws a TypeError for
\* a target that is no number, after the anchor was scheduled.
MasterRampTo(target, ticks) ==
    IF IsNumber(target)
    THEN MasterRamp(masterEvents, target.n, ticks)
    ELSE setValueAtTime(masterEvents, ValueAt(masterEvents, currentTime),
                        currentTime)

\* setEnabled(enabled) throws: it ramps the master gain to a volume that is
\* no number.
SetEnabledThrows(enabled) ==
    enabled /\ masterGain /\ audioContext # "null" /\ ~IsNumber(state.volume)

\* setEnabled(enabled); ok: the write to the preference store succeeds.
setEnabled(enabled, ok) ==
    LET st == [state EXCEPT !.enabled = JSBool(enabled)]
    IN  /\ storage' = StorageAfterSave(st, ok)
        /\ masterEvents' =
              IF masterGain /\ audioContext # "null"
              THEN MasterRampTo(IF enabled THEN st.volume ELSE JSNum(0),
                                EnableRampTicks)
              ELSE masterEvents
        /\ IF ~enabled /\ currentAmbientSource # 0
           THEN stopAmbient(st, DisableFade)
           ELSE /\ state' = st
                /\ UNCHANGED <<ambientEvents, timers, currentAmbientSource,
                               currentAmbientBuffer>>
        /\ UNCHANGED <<hooks, returned, instance,
                       clockVars, graphVars, sources, loadedBuffers, calls,
                       microQ, draining>>

\* A public call of setEnabled whose write to the store has the outcome ok.
SetEnabledStoring(enabled, ok) ==
    /\ lastOp' = [Op("setEnabled", IF enabled THEN "true" ELSE "false")
                    EXCEPT !.threw = SetEnabledThrows(enabled), !.saved = ok]
    /\ setEnabled(enabled, ok)

\* setEnabled(enabled), the preference store working.
SetEnabled(enabled) == SetEnabledStoring(enabled, TRUE)

\* toggle()
Toggle(ok) ==
    /\ lastOp' = [Op("toggle", "")
                    EXCEPT !.threw = SetEnabledThrows(~Truthy(state.enabled)),
                           !.saved = ok]
    /\ setEnabled(~Truthy(state.enabled), ok)

\* A setVolume that only caps the volume at 1.
ClampAbove(v) == IF v > FullVolume THEN FullVolume ELSE v

\* Math.max(0, Math.min(1, volume)), for a number.
Clamp(v) ==
    LET capped == IF v < FullVolume THEN v ELSE FullVolume
    IN  IF capped > 0 THEN capped ELSE 0

\* setVolume(volume) for a number; ok: the write to the store succeeds.
SetVolume(volume, ok) ==
    LET st == [state EXCEPT !.volume = JSNum(Clamp(volume))]
    IN  /\ lastOp' = [Op("setVolume", "") EXCEPT !.arg = volume, !.saved = ok]
        /\ state' = st
        /\ storage' = StorageAfterSave(st, ok)
        /\ masterEvents' =
              IF masterGain /\ audioContext # "null" /\ Truthy(st.enabled)
              THEN MasterRampTo(st.volume, VolumeRampTicks)
              ELSE masterEvents
        /\ UNCHANGED <<hooks, returned, instance,
                       clockVars, graphVars, ambientEvents, sources,
                       currentAmbientSource, currentAmbientBuffer,
                       loadedBuffers, calls, microQ, draining, timers>>

---------------------------------------------------------------------------
(* dispose() and getInstance() *)

\* dispose(): fadeInterval is never set; the current source is stopped, an
\* exception of stop() being swallowed; the context is closed; the cache is
\* cleared and the static instance reset.  The fields of the engine keep
\* their values, and no timer is cleared.
Dispose ==
    /\ lastOp' = Op("dispose", "")
    /\ sources' = IF currentAmbientSource # 0
                  THEN [sources EXCEPT ![currentAmbientSource] = StoppedSource]
                  ELSE sources
    /\ audioContext' = IF audioContext # "null" THEN "closed" ELSE audioContext
    /\ loadedBuffers' = [u \in Urls |-> NullBuffer]
    /\ instance' = FALSE
    /\ UNCHANGED <<hooks, clockVars, masterGain, ambientGain, uiGain,
                   uiGainValue, initPc, nodesCreated, masterEvents, ambientEvents,
                   currentAmbientSource, currentAmbientBuffer, state, storage,
                   calls, microQ, draining, timers, returned>>

\* SoundManager.getInstance(): the engine there is, or after dispose() a new
\* one constructed over the preference store, which the model follows from
\* here on.  The timers the old engine set and the sources it made remain;
\* the continuations of its calls act on the old engine only.
GetInstance ==
    IF instance
    THEN /\ lastOp' = Op("getInstance", "same")
         /\ UNCHANGED <<hooks, returned, instance, clockVars, graphVars, masterEvents,
                        ambientEvents, sources, currentAmbientSource,
                        currentAmbientBuffer, loadedBuffers, state, storage,
                        calls, microQ, draining, timers>>
    ELSE /\ lastOp' = [Op("getInstance", "new") EXCEPT !.at = 0, !.src = 0]
         /\ instance' = TRUE
         /\ currentTime' = 0
         /\ audioContext' = "null"
         /\ masterGain' = FALSE
         /\ ambientGain' = FALSE
         /\ uiGain' = FALSE
         /\ masterEvents' = <<>>
         /\ ambientEvents' = <<>>
         /\ uiGainValue' = NodeDefaultGain
         /\ currentAmbientSource' = 0
         /\ currentAmbientBuffer' = NullBuffer
         /\ loadedBuffers' = [u \in Urls |-> NullBuffer]
         /\ state' = initializeFromStorage(storage)
         /\ calls' = <<>>
         /\ microQ' = <<>>
         /\ draining' = FALSE
         /\ initPc' = "idle"
         /\ nodesCreated' = [ctx |-> 0, gain |-> 0]
         /\ UNCHANGED <<now, sources, storage, timers, returned, hooks>>

---------------------------------------------------------------------------
(* getState() and what its caller does with the object *)

\* A public call of getState().
GetState ==
    /\ lastOp' = Op("getState", "")
    /\ returned' = getState(state)
    /\ UNCHANGED <<hooks, instance, clockVars, graphVars, masterEvents,
                   ambientEvents,
                   sources, currentAmbientSource, currentAmbientBuffer,
                   loadedBuffers, state, storage, calls, microQ, draining,
                   timers>>

\* Assignments a caller makes to a field of the returned object.
CallerWrites ==
    {<<"enabled", JSBool(TRUE)>>, <<"enabled", JSBool(FALSE)>>,
     <<"volume", JSNum(0)>>, <<"currentAmbience", "city">>}

\* The caller assigns v to field f of the returned object: a write to the
\* state when the object is the state.
WriteReturned(f, v) ==
    /\ returned.held
    /\ lastOp' = Op("writeReturned", f)
    /\ IF returned.alias
       THEN state' = [state EXCEPT ![f] = v] /\ UNCHANGED returned
       ELSE returned' = [returned EXCEPT !.val[f] = v] /\ UNCHANGED state
    /\ UNCHANGED <<hooks, instance, clockVars, graphVars, masterEvents,
                   ambientEvents,
                   sources, currentAmbientSource, currentAmbientBuffer,
                   loadedBuffers, storage, calls, microQ, draining, timers>>

---------------------------------------------------------------------------
(* Timers and clocks *)

\* The next timer to run: due, and none is due earlier or was set earlier
\* for the same time.
NextTimer(i) ==
    /\ i \in 1..Len(timers)
    /\ timers[i].due <= now
    /\ \A j \in 1..Len(timers) :
          timers[j].due > timers[i].due \/ (timers[j].due = timers[i].due /\ j >= i)

RemoveAt(seq, i) == SubSeq(seq, 1, i - 1) \o SubSeq(seq, i + 1, Len(seq))

\* A teardown callback runs: source.stop(), an exception being swallowed.
FireTimer ==
    /\ microQ = <<>>
    /\ \E i \in 1..Len(timers) :
          /\ NextTimer(i)
          /\ sources' = [sources EXCEPT ![timers[i].src] = StoppedSource]
          /\ timers' = RemoveAt(timers, i)
    /\ UNCHANGED <<hooks, returned, instance,
                   clockVars, graphVars, masterEvents, ambientEvents,
                   currentAmbientSource, currentAmbientBuffer, loadedBuffers,
                   state, storage, calls, microQ, draining, lastOp>>

\* 100 ms pass: timers are punctual, the audio clock runs with the context.
Tick ==
    /\ microQ = <<>>
    /\ \A i \in 1..Len(timers) : timers[i].due > now
    /\ now' = now + 1
    /\ currentTime' = IF audioContext = "running"
                      THEN currentTime + 1 ELSE currentTime
    /\ masterEvents' = LiveEvents(masterEvents, currentTime')
    /\ ambientEvents' = LiveEvents(ambientEvents, currentTime')
    /\ UNCHANGED <<hooks, returned, instance, graphVars, sources,
                   currentAmbientSource, currentAmbientBuffer, loadedBuffers,
                   state, storage, calls, microQ, draining, timers, lastOp>>

---------------------------------------------------------------------------
(* Specifications *)

\* An engine that was constructed with stored preference enabled = true and
\* initialized without failure on a running context.
InitReady ==
    /\ now = 0
    /\ currentTime = 0
    /\ audioContext = "running"
    /\ masterGain = TRUE
    /\ ambientGain = TRUE
    /\ uiGain = TRUE
    /\ storage = saveToStorage([DefaultState EXCEPT !.enabled = JSBool(TRUE)])
    /\ state = initializeFromStorage(storage)
    /\ masterEvents = setValueAtTime(<<>>, state.volume.n, 0)
    /\ ambientEvents = setValueAtTime(<<>>, AmbientBusGain, 0)
    /\ uiGainValue = UiBusGain
    /\ sources = <<>>
    /\ currentAmbientSource = 0
    /\ currentAmbientBuffer = NullBuffer
    /\ loadedBuffers = [u \in Urls |-> NullBuffer]
    /\ calls = <<>>
    /\ microQ = <<>>
    /\ draining = FALSE
    /\ timers = <<>>
    /\ initPc = "returned"
    /\ nodesCreated = [ctx |-> 1, gain |-> 3]
    /\ lastOp = NoOp
    /\ instance = TRUE
    /\ returned = NothingReturned
    /\ hooks = NoHooks

\* States a context can be created in.
ContextStates == {"suspended", "running"}

\* Names passed to playAmbient in the life of an engine: a category, a cue
\* name, and a name that is neither.
LifeAmbient == {"nature", "hover", "nonexistent"}

\* A public call can be made: the caller's code runs before the microtasks
\* of its task, and fewer than n public calls were made so far.
Budget(n) == ~draining /\ lastOp.n < n

\* Only playAmbient is called, every asset loads.
NextAmbient ==
    \/ \E t \in PlayTypes, d \in Durations : Budget(MaxCalls) /\ PlayAmbient(t, d)
    \/ \E id \in 1..Len(calls) : FetchSettle(id, TRUE)
    \/ MicroStep
    \/ FireTimer
    \/ now < MaxTime /\ Tick

SpecAmbient == InitReady /\ [][NextAmbient]_vars

\* playAmbient, stopAmbient and setEnabled are called, every asset loads.
NextSession ==
    \/ \E t \in PlayTypes, d \in Durations :
          Budget(MaxSessionCalls) /\ PlayAmbient(t, d)
    \/ \E f \in Fades : Budget(MaxSessionCalls) /\ StopAmbient(f)
    \/ \E b \in BOOLEAN : Budget(MaxSessionCalls) /\ SetEnabled(b)
    \/ \E id \in 1..Len(calls) : FetchSettle(id, TRUE)
    \/ MicroStep
    \/ FireTimer
    \/ now < MaxSessionTime /\ Tick

SpecSession == InitReady /\ [][NextSession]_vars

\* The life of an engine from its construction: initialize() with every
\* failure, the play calls, setEnabled, and what the platform does in between.
Next ==
    \/ \E f \in InitFailures, cs \in ContextStates :
          Budget(MaxLifeCalls) /\ Initialize(f, cs)
    \/ \E ok \in BOOLEAN : ResumeSettle(ok)
    \/ \E t \in LifeAmbient, d \in ShortCrossfades :
          Budget(MaxLifeCalls) /\ PlayAmbient(t, d)
    \/ \E t \in UISoundType : Budget(MaxLifeCalls) /\ PlayUI(t)
    \/ \E b \in BOOLEAN : Budget(MaxLifeCalls) /\ SetEnabled(b)
    \/ \E id \in 1..Len(calls), ok \in BOOLEAN : FetchSettle(id, ok)
    \/ MicroStep
    \/ FireTimer
    \/ now < MaxLifeTime /\ Tick

Spec == Init /\ [][Next]_vars

\* Volumes passed to setVolume: below, inside and above [0, 1].
VolumeInputs == {0 - FullVolume, 0, 42, FullVolume, 5 * FullVolume}

\* The preferences: setEnabled, toggle and setVolume, with the store working
\* or not, on an engine that may be initialized, and the page being loaded
\* again.
NextPrefs ==
    \/ \E v \in VolumeInputs, ok \in BOOLEAN :
          Budget(MaxPrefsCalls) /\ SetVolume(v, ok)
    \/ \E b \in BOOLEAN, ok \in BOOLEAN :
          Budget(MaxPrefsCalls) /\ SetEnabledStoring(b, ok)
    \/ \E ok \in BOOLEAN : Budget(MaxPrefsCalls) /\ Toggle(ok)
    \/ Budget(MaxPrefsCalls) /\ Initialize("none", "running")
    \/ Budget(MaxPrefsCalls) /\ Reload
    \/ now < MaxPrefsTime /\ Tick

\* Over any stored item.
SpecPrefs == InitPrefs /\ [][NextPrefs]_vars

\* Over what an earlier session of the engine stored.
SpecStore == Init /\ [][NextPrefs]_vars

\* Every category and every cue is played, and every fetch can fail.
NextLoad ==
    \/ \E t \in AmbienceType, d \in ShortCrossfades :
          Budget(MaxLoadCalls) /\ PlayAmbient(t, d)
    \/ \E t \in UISoundType : Budget(MaxLoadCalls) /\ PlayUI(t)
    \/ \E id \in 1..Len(calls), ok \in BOOLEAN : FetchSettle(id, ok)
    \/ MicroStep
    \/ FireTimer
    \/ now < MaxLoadTime /\ Tick

SpecLoad == InitReady /\ [][NextLoad]_vars

\* Only playAmbient is called, with one crossfade length: nothing stops the
\* ambience.
NextRestart ==
    \/ \E t \in PlayTypes, d \in ShortCrossfades :
          Budget(MaxRestartCalls) /\ PlayAmbient(t, d)
    \/ \E id \in 1..Len(calls) : FetchSettle(id, TRUE)
    \/ MicroStep
    \/ FireTimer
    \/ now < MaxRestartTime /\ Tick

SpecRestart == InitReady /\ [][NextRestart]_vars

\* The crossfade of the scenario: 1000 ms.
ScenarioCrossfades == {10}

\* The scenario's first assertion was made: the crossfade length has passed
\* since the first call and the nature source is the current one.
NatureAsserted ==
    /\ lastOp.n = 1
    /\ currentAmbientSource # 0
    /\ state.currentAmbience = "nature"
    /\ \E d \in ScenarioCrossfades : currentTime >= lastOp.at + d

\* The scenario: playAmbient('nature', 1000), then after its assertion
\* playAmbient('city', 1000); each asset loads or fails to after any time.
NextScenario ==
    \/ \E d \in ScenarioCrossfades :
          lastOp.n = 0 /\ PlayAmbient("nature", d)
    \/ \E d \in ScenarioCrossfades :
          ~draining /\ NatureAsserted /\ PlayAmbient("city", d)
    \/ \E id \in 1..Len(calls), ok \in BOOLEAN : FetchSettle(id, ok)
    \/ MicroStep
    \/ FireTimer
    \/ now < MaxScenarioTime /\ Tick

SpecScenario == InitReady /\ [][NextScenario]_vars

\* A cue and a category that are played at the same time.
OverlapCues == {"hover"}
OverlapAmbient == {"nature"}

\* Play requests that overlap: playUI and playAmbient are called while
\* earlier fetches are in flight, and every fetch loads or fails, all
\* within one tick.
NextOverlap ==
    \/ \E t \in OverlapCues : Budget(MaxOverlapCalls) /\ PlayUI(t)
    \/ \E t \in OverlapAmbient, d \in ShortCrossfades :
          Budget(MaxOverlapCalls) /\ PlayAmbient(t, d)
    \/ \E id \in 1..Len(calls), ok \in BOOLEAN : FetchSettle(id, ok)
    \/ MicroStep

\* Every fetch terminates, and the microtasks of a task run.
OverlapFairness ==
    /\ WF_vars(MicroStep)
    /\ WF_vars(\E id \in 1..Len(calls), ok \in BOOLEAN : FetchSettle(id, ok))

SpecOverlap == InitReady /\ [][NextOverlap]_vars /\ OverlapFairness

\* Objects returned by getState() are kept and written to by the caller
\* while the engine's enabled flag, volume and ambience change.
NextSnapshot ==
    \/ Budget(MaxSnapshotCalls) /\ GetState
    \/ \E w \in CallerWrites :
          Budget(MaxSnapshotCalls) /\ WriteReturned(w[1], w[2])
    \/ \E v \in VolumeInputs : Budget(MaxSnapshotCalls) /\ SetVolume(v, TRUE)
    \/ Budget(MaxSnapshotCalls) /\ Toggle(TRUE)
    \/ \E t \in OverlapAmbient, d \in ShortCrossfades :
          Budget(MaxSnapshotCalls) /\ PlayAmbient(t, d)
    \/ \E id \in 1..Len(calls) : FetchSettle(id, TRUE)
    \/ MicroStep

SpecSnapshot == InitReady /\ [][NextSnapshot]_vars

\* Fades passed to stopAmbient, in ticks.
StopFades == {1, 3}

\* The ambience is played and stopped, with crossfades of both lengths
\* pending when it is stopped; every asset loads.
NextStop ==
    \/ \E t \in PlayTypes, d \in Durations :
          Budget(MaxStopCalls) /\ PlayAmbient(t, d)
    \/ \E f \in StopFades : Budget(MaxStopCalls) /\ StopAmbient(f)
    \/ \E id \in 1..Len(calls) : FetchSettle(id, TRUE)
    \/ MicroStep
    \/ FireTimer
    \/ now < MaxStopTime /\ Tick

SpecStop == InitReady /\ [][NextStop]_vars

\* The master gain: setEnabled, toggle and setVolume on an initialized engine
\* with a working store, at any distance in time from each other.
NextMaster ==
    \/ \E v \in VolumeInputs : Budget(MaxMasterCalls) /\ SetVolume(v, TRUE)
    \/ \E b \in BOOLEAN : Budget(MaxMasterCalls) /\ SetEnabled(b)
    \/ Budget(MaxMasterCalls) /\ Toggle(TRUE)
    \/ now < MaxMasterTime /\ Tick

SpecMaster == InitReady /\ [][NextMaster]_vars

\* A caller's own microtask is queued: the rest of an async caller after an
\* `await`, which will call stopAmbient(fade) when its turn in the queue
\* comes.  One such microtask at a time.
AwaitThenStop(fade) ==
    /\ \A id \in 1..Len(calls) : calls[id].pc # "queued"
    /\ calls' = Append(calls, [DoneCall EXCEPT !.op = "stopAmbient",
                                              !.dur = fade,
                                              !.pc = "queued"])
    /\ microQ' = Append(microQ, Len(calls) + 1)
    /\ UNCHANGED <<hooks, returned, instance, clockVars, graphVars, masterEvents,
                   ambientEvents, sources, currentAmbientSource,
                   currentAmbientBuffer, loadedBuffers, state, storage,
                   timers, draining, lastOp>>

\* The caller's microtask is at the head of the queue: it calls
\* stopAmbient(fade) and ends.
ResumeThenStop ==
    /\ microQ # <<>>
    /\ calls[Head(microQ)].pc = "queued"
    /\ lastOp' = [Op("stopAmbient", "") EXCEPT !.arg = calls[Head(microQ)].dur]
    /\ stopAmbient(state, calls[Head(microQ)].dur)
    /\ calls' = [calls EXCEPT ![Head(microQ)] = DoneCall]
    /\ microQ' = Tail(microQ)
    /\ draining' = (microQ' # <<>>)
    /\ UNCHANGED <<hooks, returned, instance, clockVars, graphVars, masterEvents,
                   sources, loadedBuffers, storage>>

\* playAmbient, stopAmbient and setEnabled in every order the event loop
\* allows: from tasks, and stopAmbient also from a microtask of the caller;
\* every asset loads.
NextInterleave ==
    \/ \E t \in PlayTypes, d \in ShortCrossfades :
          Budget(MaxInterleaveCalls) /\ PlayAmbient(t, d)
    \/ \E f \in Fades : Budget(MaxInterleaveCalls) /\ StopAmbient(f)
    \/ \E b \in BOOLEAN : Budget(MaxInterleaveCalls) /\ SetEnabled(b)
    \/ \E f \in Fades : Budget(MaxInterleaveCalls) /\ AwaitThenStop(f)
    \/ ResumeThenStop
    \/ \E id \in 1..Len(calls) : FetchSettle(id, TRUE)
    \/ MicroStep
    \/ FireTimer
    \/ now < MaxInterleaveTime /\ Tick

SpecInterleave == InitReady /\ [][NextInterleave]_vars

\* No fetch is in flight.
NoFetchPending == \A id \in 1..Len(calls) : calls[id].pc # "fetching"

\* The engine is disposed of while an ambience plays or fades, no load being
\* in flight; the callers then initialize the engine they hold or get the
\* instance anew, and play and stop on an engine that is the instance.
NextDispose ==
    \/ \E t \in PlayTypes, d \in ShortCrossfades :
          Budget(MaxDisposeCalls) /\ instance /\ PlayAmbient(t, d)
    \/ \E f \in Fades : Budget(MaxDisposeCalls) /\ instance /\ StopAmbient(f)
    \/ Budget(MaxDisposeCalls) /\ NoFetchPending /\ Dispose
    \/ Budget(MaxDisposeCalls) /\ GetInstance
    \/ Budget(MaxDisposeCalls) /\ Initialize("none", "running")
    \/ \E id \in 1..Len(calls) : FetchSettle(id, TRUE)
    \/ MicroStep
    \/ FireTimer
    \/ now < MaxDisposeTime /\ Tick

SpecDispose == InitReady /\ [][NextDispose]_vars

\* The engine is disposed of at any moment, a load being in flight or not;
\* nothing is called on the disposed engine, and the loads that were in
\* flight settle either way and their calls go on.
NextInFlight ==
    \/ \E t \in PlayTypes, d \in ShortCrossfades :
          Budget(MaxInFlightCalls) /\ instance /\ PlayAmbient(t, d)
    \/ \E c \in OverlapCues :
          Budget(MaxInFlightCalls) /\ instance /\ PlayUI(c)
    \/ Budget(MaxInFlightCalls) /\ instance /\ Dispose
    \/ \E id \in 1..Len(calls), ok \in BOOLEAN : FetchSettle(id, ok)
    \/ MicroStep
    \/ FireTimer
    \/ now < MaxInFlightTime /\ Tick

SpecInFlight == InitReady /\ [][NextInFlight]_vars

\* playAmbient and setEnabled are called; every asset loads, and does so
\* before the clocks move on.
NextDisable ==
    \/ \E t \in PlayTypes, d \in Durations :
          Budget(MaxSessionCalls) /\ PlayAmbient(t, d)
    \/ \E b \in BOOLEAN : Budget(MaxSessionCalls) /\ SetEnabled(b)
    \/ \E id \in 1..Len(calls) : FetchSettle(id, TRUE)
    \/ MicroStep
    \/ FireTimer
    \/ now < MaxSessionTime /\ NoFetchPending /\ Tick

SpecDisable == InitReady /\ [][NextDisable]_vars

---------------------------------------------------------------------------
(* useSound() *)

\* The mount effect of hook instance h: soundManagerRef.current becomes the
\* engine there is, whose state is read.
HookMount(h) ==
    /\ ~hooks[h].ref
    /\ hooks' = [hooks EXCEPT ![h].ref = TRUE]
    /\ UNCHANGED engineVars

\* A play callback that looks at the engine and not at the instance's flag.
ForwardsWhenEngineReady(h) == hooks[h].ref /\ audioContext # "null"

\* "if (!soundManagerRef.current || !isInitialized) return;" in the callback
\* the caller holds: isInitialized is the value the callback closed over.
Forwards(h) == hooks[h].ref /\ hooks[h].created

\* The initialize callback of h, up to its await of the engine's
\* initialize(); one such call of an instance at a time.
HookInitialize(h, f, ctxState) ==
    /\ hooks[h].ref
    /\ hooks[h].awaiting = "none"
    /\ hooks' = [hooks EXCEPT ![h].called = TRUE,
                              ![h].awaiting = IF AlreadyInitialized
                                              THEN "noop" ELSE "constructing"]
    /\ initialize(f, ctxState)

\* The engine's initialize() has returned to h: at once when the engine had
\* a context, otherwise at the end of the construction, failed or not.
\* "setIsInitialized(true)".
HookAfterInitialize(h) ==
    /\ \/ hooks[h].awaiting = "noop"
       \/ hooks[h].awaiting = "constructing" /\ initPc # "resuming"
    /\ hooks' = [hooks EXCEPT ![h].awaiting = "none",
                              ![h].isInitialized = TRUE]
    /\ UNCHANGED engineVars

\* The component of h renders again after its flag changed: useCallback
\* makes new play callbacks over the flag, and the component now holds them.
HookRender(h) ==
    /\ hooks[h].created # hooks[h].isInitialized
    /\ hooks' = [hooks EXCEPT ![h].created = hooks[h].isInitialized]
    /\ UNCHANGED engineVars

\* The playAmbient callback of h is called.
HookPlayAmbient(h, type, crossfade) ==
    /\ hooks[h].plays < MaxHookPlays
    /\ hooks' = [hooks EXCEPT ![h].plays = @ + 1]
    /\ IF Forwards(h)
       THEN playAmbient(type, crossfade)
       ELSE UNCHANGED engineVars

\* The playUI callback of h is called.
HookPlayUI(h, type) ==
    /\ hooks[h].plays < MaxHookPlays
    /\ hooks' = [hooks EXCEPT ![h].plays = @ + 1]
    /\ IF Forwards(h)
       THEN playUI(type)
       ELSE UNCHANGED engineVars

\* Construction failures the hook instances meet: none, or the second gain
\* node cannot be made.
HookFailures == {"none", "gain2"}

\* An engine just constructed, the sound enabled in the preference store,
\* and no component mounted yet.
InitHooks ==
    /\ storage = saveToStorage([DefaultState EXCEPT !.enabled = JSBool(TRUE)])
    /\ Constructed

\* Two components use the hook over the one engine: they mount, initialize,
\* render and play; every asset loads.
NextHooks ==
    \/ \E h \in Hooks : HookMount(h)
    \/ \E h \in Hooks, f \in HookFailures, c \in ContextStates :
          Budget(MaxHookCalls) /\ HookInitialize(h, f, c)
    \/ \E h \in Hooks : HookAfterInitialize(h)
    \/ \E h \in Hooks : HookRender(h)
    \/ \E h \in Hooks, t \in OverlapAmbient, d \in ShortCrossfades :
          Budget(MaxHookCalls) /\ HookPlayAmbient(h, t, d)
    \/ \E h \in Hooks, c \in OverlapCues :
          Budget(MaxHookCalls) /\ HookPlayUI(h, c)
    \/ \E ok \in BOOLEAN : ResumeSettle(ok)
    \/ \E id \in 1..Len(calls) : FetchSettle(id, TRUE)
    \/ MicroStep

SpecHooks == InitHooks /\ [][NextHooks]_vars

---------------------------------------------------------------------------
(* Properties *)

\* Every asynchronous call has returned.
NoCallPending == \A id \in 1..Len(calls) : calls[id].pc = "done"

\* Nothing is left to happen: no continuation, no timer, no scheduled ramp.
Quiescent ==
    /\ microQ = <<>>
    /\ NoCallPending
    /\ timers = <<>>
    /\ currentTime >= LastEventTime(ambientEvents)

\* C1: after a sequence of playAmbient calls on an enabled, initialized
\* engine, once every ramp and teardown timer has elapsed, exactly one
\* ambient source is playing, the bus gain is not 0, the source is the one
\* of the most recently requested category, and currentAmbience is that
\* category.
C1_LastRequestedWins ==
    (Quiescent /\ lastOp.op = "playAmbient") =>
        /\ PlayingAmbient = {currentAmbientSource}
        /\ currentAmbientSource # 0
        /\ sources[currentAmbientSource].cat = lastOp.arg
        /\ AmbientGainNow # 0
        /\ state.currentAmbience = lastOp.arg

\* The newest source is an ambient one, the first half-period of its
\* crossfade has elapsed, and every timer due by now has run.
LatestHalfElapsed ==
    /\ sources # <<>>
    /\ sources[Len(sources)].bus = "ambient"
    /\ sources[Len(sources)].playing
    /\ currentTime >= sources[Len(sources)].startedAt + sources[Len(sources)].half
    /\ microQ = <<>>
    /\ \A i \in 1..Len(timers) : timers[i].due > now

\* C2: once the first half-period of the latest crossfade has elapsed, at
\* most one ambient source is playing while the ambient-bus gain is not 0.
C2_OneAudibleAfterHalf ==
    LatestHalfElapsed =>
        (AmbientGainNow = 0 \/ Cardinality(PlayingAmbient) <= 1)

\* The step is a public call of the given name and argument.
IsCall(name, arg) ==
    lastOp'.n = lastOp.n + 1 /\ lastOp'.op = name /\ lastOp'.arg = arg

\* C3: while sound is disabled no source is created and currentAmbience is
\* not set to a category.
C3_NothingStartsWhileDisabled ==
    [][~Truthy(state.enabled) =>
          /\ Len(sources') = Len(sources)
          /\ state'.currentAmbience \in {state.currentAmbience, NullAmbience}]_vars

\* The step starts an ambient source.
StartsAmbient ==
    /\ Len(sources') = Len(sources) + 1
    /\ sources'[Len(sources')].bus = "ambient"

\* C4: playAmbient(c) starts no source for c while the session's source is
\* a live source for c, so that repeated playAmbient(c) calls with no stop in
\* between start one source for c.
C4_NoRedundantRestart ==
    [][(StartsAmbient /\ currentAmbientSource # 0
          /\ sources[currentAmbientSource].playing) =>
          sources[currentAmbientSource].cat # sources'[Len(sources')].cat]_vars

\* C7: at most one audio context and three gain nodes are ever constructed,
\* exactly one and three once an initialize() got through construction, and
\* once the engine holds a context no step constructs anything or takes the
\* context away.
C7_InitializeOnce ==
    [][/\ nodesCreated'.ctx <= 1
       /\ nodesCreated'.gain <= 3
       /\ initPc' \in {"resuming", "returned"} =>
             nodesCreated' = [ctx |-> 1, gain |-> 3]
       /\ AlreadyInitialized =>
             (audioContext' # "null" /\ nodesCreated' = nodesCreated)]_vars

\* C7 happens: initialize() was called again while the first call awaits
\* resume(), and one context and three gain nodes exist.
C7_Witness ==
    /\ lastOp.op = "initialize" /\ lastOp.arg = "noop"
    /\ initPc = "resuming"
    /\ nodesCreated = [ctx |-> 1, gain |-> 3]

\* C8: after initialize() has caught a failure the engine holds no context
\* and no source exists.
C8_FailedInitLeavesUninitialized ==
    initPc = "caught" => (audioContext = "null" /\ sources = <<>>)

\* The step belongs to the asynchronous call id.
StepOf(id) == id \in 1..Len(calls) /\ calls'[id] # calls[id]

\* The step is the failing settlement of call id's fetch, and leaves the
\* fallback for the call's kind with the call and in the cache under its URL.
FailedLoadStep(id) ==
    calls[id].pc = "fetching" /\ calls'[id].pc = "afterLoad"
        /\ calls'[id].fetchFailed
FallbackReturnedAndCached(id) ==
    /\ calls'[id].buffer.origin = "fallback"
    /\ calls'[id].buffer.kind = calls[id].type
    /\ loadedBuffers'[calls[id].url] = calls'[id].buffer

\* The step continues call id after a failed load, and starts a source that
\* plays the call's buffer.
AfterFailedLoadStep(id) ==
    calls[id].pc = "afterLoad" /\ calls[id].fetchFailed /\ StepOf(id)
StartsSourceOf(id) ==
    /\ Len(sources') = Len(sources) + 1
    /\ sources'[Len(sources')].buffer = calls[id].buffer
    /\ sources'[Len(sources')].playing

\* C9: for each of the seven kinds a failed fetch makes loadSound return the
\* fallback and cache it under the same URL, and the play request then starts
\* a source, unless it is a playAmbient for the category that by then is the
\* session's category with a current source.
C9_FallbackPlays ==
    [][\A id \in 1..Len(calls) :
          /\ FailedLoadStep(id) => FallbackReturnedAndCached(id)
          /\ AfterFailedLoadStep(id) =>
                \/ StartsSourceOf(id)
                \/ calls[id].op = "playAmbient"
                      /\ SameAmbience(calls[id].type)]_vars

\* C9 as stated: the play request whose fetch failed always starts a source.
C9_FallbackAlwaysPlays ==
    [][\A id \in 1..Len(calls) :
          /\ FailedLoadStep(id) => FallbackReturnedAndCached(id)
          /\ AfterFailedLoadStep(id) => StartsSourceOf(id)]_vars

\* C9 happens: a cue and an ambience both play their fallback, each cached
\* under its URL.
C9_Witness ==
    \E i, j \in 1..Len(sources) :
        /\ sources[i].bus = "ui" /\ sources[j].bus = "ambient"
        /\ sources[i].buffer.origin = "fallback"
        /\ sources[j].buffer.origin = "fallback"
        /\ loadedBuffers[UI_SOUNDS(sources[i].cat)] = sources[i].buffer
        /\ loadedBuffers[AMBIENT_SOUNDS(sources[j].cat)] = sources[j].buffer

\* C10: a playAmbient with a name outside the four categories changes
\* neither the session, the sources, the cache, the ambient-bus schedule nor
\* the timers.
C10_UnknownCategoryNoOp ==
    [][\A id \in 1..Len(calls) :
          (StepOf(id) /\ calls[id].op = "playAmbient"
             /\ calls[id].type \notin AmbienceType) =>
          UNCHANGED <<state, sources, currentAmbientSource,
                      currentAmbientBuffer, loadedBuffers, ambientEvents,
                      timers>>]_vars

\* C5: setEnabled(false) with a current ambient source clears the session,
\* and the ambient-bus gain as scheduled at its return is 0 500 ms later.
C5_MuteOnDisable ==
    [][(IsCall("setEnabled", "false") /\ currentAmbientSource # 0) =>
          /\ currentAmbientSource' = 0
          /\ currentAmbientBuffer' = NullBuffer
          /\ state'.currentAmbience = NullAmbience
          /\ ValueAt(ambientEvents', currentTime + DisableFadeTicks) = 0]_vars

\* C5 happens: setEnabled(false) found a session whose fade-in ramp ends
\* after the 500 ms, which have now passed with the gain at 0.
C5_Witness ==
    /\ lastOp.op = "setEnabled" /\ lastOp.arg = "false" /\ lastOp.src # 0
    /\ currentTime = lastOp.at + DisableFadeTicks
    /\ \E i \in 1..Len(ambientEvents) :
          /\ ambientEvents[i].k = "ramp"
          /\ ambientEvents[i].v = AmbientBusGain
          /\ ambientEvents[i].t > currentTime
    /\ currentAmbientSource = 0
    /\ AmbientGainNow = 0

\* The last public call stopped a session: stopAmbient, or setEnabled(false),
\* that found a current source.  StoppedFade is its fade.
LastCallStopped ==
    /\ lastOp.src # 0
    /\ \/ lastOp.op = "stopAmbient"
       \/ lastOp.op = "setEnabled" /\ lastOp.arg = "false"
StoppedFade == IF lastOp.op = "stopAmbient" THEN lastOp.arg ELSE DisableFadeTicks

\* No session, no call in flight, and the last stop's fade window is over.
IdleAfterStop ==
    /\ LastCallStopped
    /\ currentAmbientSource = 0
    /\ state.currentAmbience = NullAmbience
    /\ NoCallPending
    /\ microQ = <<>>
    /\ currentTime >= lastOp.at + StoppedFade

\* C6: when idle after a stop whose fade window has elapsed, the ambient-bus
\* gain is 0.
C6_SilentWhenIdle == IdleAfterStop => AmbientGainNow = 0

---------------------------------------------------------------------------
(* Preferences *)

\* The step is a public call of the given name.
IsCallOf(name) == lastOp'.n = lastOp.n + 1 /\ lastOp'.op = name

\* v put into [0, 1].
InUnit(v) == IF v < 0 THEN 0 ELSE IF v > FullVolume THEN FullVolume ELSE v

\* The master-gain timeline holds a ramp to the number v that ends at time t.
MasterRampScheduled(ev, v, t) ==
    \E i \in 1..Len(ev) : ev[i] = RampEv(v, t)

\* C11: setVolume(v) stores 0 for v below 0, 1 for v above 1 and v otherwise;
\* the stored value is the one written to the preference store, and when the
\* engine is enabled and has a master gain it is the target of a ramp over
\* 0.1 s.
C11_SetVolumeClamps ==
    [][IsCallOf("setVolume") =>
          /\ state'.volume = JSNum(InUnit(lastOp'.arg))
          /\ lastOp'.saved => storage'.volume = state'.volume
          /\ (masterGain /\ audioContext # "null" /\ Truthy(state.enabled)) =>
                MasterRampScheduled(masterEvents', InUnit(lastOp'.arg),
                                    currentTime + VolumeRampTicks)]_vars

\* C11 happens: setVolume(5) on an enabled engine with a master gain stored,
\* persisted and ramped to 1.
C11_Witness ==
    /\ lastOp.op = "setVolume" /\ lastOp.arg = 5 * FullVolume /\ lastOp.saved
    /\ state.volume = JSNum(FullVolume)
    /\ storage.volume = JSNum(FullVolume)
    /\ masterGain /\ Truthy(state.enabled)
    /\ MasterRampScheduled(masterEvents, FullVolume,
                           lastOp.at + VolumeRampTicks)

\* v is a number in [0, 1].
VolumeInUnit(v) == IsNumber(v) /\ v.n >= 0 /\ v.n <= FullVolume

\* The last public call wrote the preferences to the store.
LastCallSaved ==
    lastOp.op \in {"setEnabled", "toggle", "setVolume"} /\ lastOp.saved

\* C12: the engine's volume is a number in [0, 1], so is every value
\* scheduled on the master gain and the volume the engine wrote to the store.
C12_VolumeAlwaysInUnit ==
    /\ VolumeInUnit(state.volume)
    /\ \A i \in 1..Len(masterEvents) :
          masterEvents[i].v >= 0 /\ masterEvents[i].v <= FullVolume
    /\ LastCallSaved => VolumeInUnit(storage.volume)

\* The step is a setEnabled, toggle or setVolume call whose write succeeds.
SavingCall ==
    (IsCallOf("setEnabled") \/ IsCallOf("toggle") \/ IsCallOf("setVolume"))
        /\ lastOp'.saved

JustConstructed == lastOp.op \in {"none", "reload"}

\* C14: a newly constructed engine has enabled = false and volume = 0.7 when
\* the stored item is missing, unparsable or no object, has the default of
\* each field the stored object lacks, and holds a boolean and a number
\* whatever the stored fields are.
C14_LoadYieldsDefaults ==
    JustConstructed =>
        /\ storage.kind # "object" =>
              /\ state.enabled = DefaultState.enabled
              /\ state.volume = DefaultState.volume
        /\ storage.enabled = JSUndefined => state.enabled = DefaultState.enabled
        /\ storage.volume = JSUndefined => state.volume = DefaultState.volume
        /\ state.enabled.t = "boolean"
        /\ state.volume.t = "number"

\* The step is a call of the given name whose write to the store fails.
FailedSaveOf(name) == IsCallOf(name) /\ ~lastOp'.saved

\* The engine has a master gain to ramp.
HasMaster == masterGain /\ audioContext # "null"

\* C15: a setVolume, setEnabled or toggle call whose write to the store fails
\* does not throw, updates the in-memory volume (clamped) or enabled flag and
\* schedules the master-gain ramp it schedules otherwise; the in-memory
\* values then stay until the next such call or the end of the session.
C15_WriteFailureTolerated ==
    [][/\ FailedSaveOf("setVolume") =>
            /\ ~lastOp'.threw
            /\ state'.volume = JSNum(InUnit(lastOp'.arg))
            /\ state'.enabled = state.enabled
            /\ (HasMaster /\ Truthy(state.enabled)) =>
                  MasterRampScheduled(masterEvents', InUnit(lastOp'.arg),
                                      currentTime + VolumeRampTicks)
       /\ \A b \in BOOLEAN :
            (/\ \/ FailedSaveOf("setEnabled") /\ lastOp'.arg = (IF b THEN "true" ELSE "false")
                \/ FailedSaveOf("toggle") /\ b = ~Truthy(state.enabled)) =>
                /\ ~lastOp'.threw
                /\ state'.enabled = JSBool(b)
                /\ state'.volume = state.volume
                /\ HasMaster =>
                      MasterRampScheduled(masterEvents',
                                          IF b THEN state.volume.n ELSE 0,
                                          currentTime + EnableRampTicks)
       /\ ~(\E name \in {"setVolume", "setEnabled", "toggle", "reload"} :
               IsCallOf(name)) =>
            /\ state'.enabled = state.enabled
            /\ state'.volume = state.volume]_vars

\* C15 happens: on an enabled engine with a master gain a setVolume(0.42)
\* whose write failed returned, the volume is 0.42, the ramp to it is
\* scheduled and the store still holds the old volume.
C15_Witness ==
    /\ lastOp.op = "setVolume" /\ lastOp.arg = 42
    /\ ~lastOp.saved /\ ~lastOp.threw
    /\ state.volume = JSNum(42)
    /\ storage.volume # JSNum(42)
    /\ HasMaster /\ Truthy(state.enabled)
    /\ MasterRampScheduled(masterEvents, 42, lastOp.at + VolumeRampTicks)

---------------------------------------------------------------------------
(* Disposal *)

\* The engine the callers hold was disposed of, or is the one getInstance()
\* constructed after a disposal and nothing was called on it yet.
AfterDispose == ~instance \/ (lastOp.op = "getInstance" /\ lastOp.arg = "new")

\* The engine has a context that runs and its three gain nodes.
UsableGraph(ctx, master, ambient, ui) ==
    ctx = "running" /\ master /\ ambient /\ ui

\* C16: dispose() leaves the current source stopped, the context closed (if
\* there is one), the cache empty and the static instance reset; and an
\* initialize() made after it, on the disposed engine or on the one
\* getInstance() then returns, leaves the engine with a newly constructed
\* running context and gain nodes.
C16_InitializeAfterDisposeStartsClean ==
    [][/\ IsCallOf("dispose") =>
            /\ currentAmbientSource # 0 =>
                  ~sources'[currentAmbientSource].playing
            /\ audioContext' \in {"null", "closed"}
            /\ \A u \in Urls : loadedBuffers'[u] = NullBuffer
            /\ ~instance'
       /\ (IsCallOf("initialize") /\ AfterDispose) =>
            /\ UsableGraph(audioContext', masterGain', ambientGain', uiGain')
            /\ nodesCreated'.ctx = nodesCreated.ctx + 1]_vars

\* The step runs a teardown callback: a pending timer is gone.
TeardownRuns == Len(timers') < Len(timers)

\* C17: no teardown callback set by crossfadeAmbient or stopAmbient runs
\* once dispose() has returned: none runs while the static instance is
\* reset or the engine's context is closed.  (Nothing sets a timer on a
\* disposed engine under NextDispose, so a callback that runs then was
\* pending when dispose() was called.)
C17_NoTeardownAfterDispose ==
    [][TeardownRuns => (instance /\ audioContext # "closed")]_vars

---------------------------------------------------------------------------
(* The crossfade scenario *)

\* No continuation is runnable and every timer due by now has run.
TasksRun == microQ = <<>> /\ \A i \in 1..Len(timers) : timers[i].due > now

\* The current source is a playing, looping source of category cat.
CurrentIs(cat) ==
    /\ currentAmbientSource # 0
    /\ sources[currentAmbientSource].cat = cat
    /\ sources[currentAmbientSource].loop
    /\ sources[currentAmbientSource].playing

\* The last call is the n-th one, playAmbient(cat, ...), made ticks ago.
CalledAgo(n, cat, ticks) ==
    /\ lastOp.n = n /\ lastOp.op = "playAmbient" /\ lastOp.arg = cat
    /\ currentTime = lastOp.at + ticks
    /\ TasksRun

\* C18 as stated: 1000 ms after playAmbient('nature', 1000) a looping nature
\* source is current and the ambient-bus gain is 0.5; 1500 ms after the
\* following playAmbient('city', 1000) the nature source is stopped, the city
\* source is current and the gain is 0.5.
C18_ScenarioFromCalls ==
    \A d \in ScenarioCrossfades :
        /\ CalledAgo(1, "nature", d) =>
              CurrentIs("nature") /\ AmbientGainNow = AmbientBusGain
        /\ CalledAgo(2, "city", d + d \div 2) =>
              /\ CurrentIs("city")
              /\ PlayingAmbient = {currentAmbientSource}
              /\ AmbientGainNow = AmbientBusGain

\* The crossfade that made the current source began at least ticks ago.
CrossfadeBegan(ticks) ==
    /\ currentAmbientSource # 0
    /\ currentTime >= sources[currentAmbientSource].startedAt + ticks
    /\ TasksRun

\* C18, timed from the crossfades: from half the crossfade length after the
\* current source was started, it is the only ambient source playing (the
\* nature source is stopped once city is current); from the whole length
\* after it was started it is a looping source of the category of the call
\* that loaded it (nature for the first source, city for the second) and
\* the ambient-bus gain is 0.5.
C18_ScenarioFromCrossfades ==
    /\ CrossfadeBegan(sources[currentAmbientSource].half) =>
          PlayingAmbient = {currentAmbientSource}
    /\ CrossfadeBegan(2 * sources[currentAmbientSource].half) =>
          /\ CurrentIs(IF currentAmbientSource = 1 THEN "nature" ELSE "city")
          /\ AmbientGainNow = AmbientBusGain

\* C18 happens: the city asset took time to load, its crossfade began a
\* crossfade length ago, the nature source is stopped, the city source is
\* current and the gain is 0.5.
C18_Witness ==
    /\ lastOp.n = 2
    /\ CurrentIs("city")
    /\ sources[currentAmbientSource].startedAt > lastOp.at
    /\ CrossfadeBegan(2 * sources[currentAmbientSource].half)
    /\ Len(sources) = 2 /\ ~sources[1].playing
    /\ AmbientGainNow = AmbientBusGain

---------------------------------------------------------------------------
(* Overlapping play requests *)

\* In this step call id goes on after its `await this.loadSound(...)`.
LoadReturns(id) ==
    /\ id <= Len(calls)
    /\ calls[id].pc = "afterLoad"
    /\ calls'[id].pc # "afterLoad"

\* In this step a source playing the buffer of call id is started.
StartsSourceFor(id) ==
    /\ Len(sources') = Len(sources) + 1
    /\ sources'[Len(sources')].buffer = calls[id].buffer
    /\ sources'[Len(sources')].cat = calls[id].type
    /\ sources'[Len(sources')].playing

\* Every call made so far has ended.
EveryCallEnded ==
    microQ = <<>> /\ \A id \in 1..Len(calls) : calls[id].pc = "done"

\* Every call made goes on after its load, and ends: time and again no call
\* is left pending.
EveryLoadReturns == []<>EveryCallEnded

\* The fetch of an earlier call for the URL of call id is in flight: it was
\* when call id was made.
Overlapped(id) ==
    \E j \in 1..(id - 1) :
        calls[j].pc = "fetching" /\ calls[j].url = calls[id].url

\* C19 as stated: every call ends, and a play request made while a fetch
\* for its URL was in flight starts, when it goes on after its load, a
\* source playing the buffer loadSound returned, the asset or its fallback.
C19_EveryRequestStartsASource ==
    /\ EveryLoadReturns
    /\ [][\A id \in 1..Len(calls) :
            (LoadReturns(id) /\ Overlapped(id)) =>
                calls[id].buffer # NullBuffer /\ StartsSourceFor(id)]_vars

\* C19 but for the ambience that is current: every play request, made
\* while a fetch for its URL was in flight or not, goes on after its load,
\* with a buffer, and then starts a source playing that buffer, except a
\* playAmbient whose category is by then the current ambience with a
\* current source, which returns.
C19_RequestsNotDropped ==
    /\ EveryLoadReturns
    /\ [][\A id \in 1..Len(calls) :
            LoadReturns(id) =>
                /\ calls[id].buffer # NullBuffer
                /\ \/ StartsSourceFor(id)
                   \/ /\ calls[id].op = "playAmbient"
                      /\ SameAmbience(calls[id].type)
                      /\ sources[currentAmbientSource].cat = calls[id].type
                      /\ Len(sources') = Len(sources)]_vars

\* C19 happens: a second playUI('hover') was made while the fetch of the
\* first was in flight, and has started its source while that fetch is
\* still in flight.
C19_Witness ==
    /\ Len(calls) >= 2
    /\ calls[1].pc = "fetching" /\ calls[1].url = UI_SOUNDS("hover")
    /\ calls[2].pc = "done"
    /\ Len(sources) = 1
    /\ sources[1].cat = "hover" /\ sources[1].playing

---------------------------------------------------------------------------
(* The object getState() returns *)

\* C20: a write to the object getState() returned leaves the engine's
\* enabled, volume and currentAmbience as they are; getState() returns what
\* the engine holds then; and no other step, a change of the engine's state
\* included, changes what is read in an object returned before.
C20_GetStateSnapshot ==
    [][/\ IsCallOf("writeReturned") => state' = state
       /\ IsCallOf("getState") =>
            /\ ReturnedValue' = state
            /\ state' = state
       /\ (returned.held /\ ~IsCallOf("writeReturned")
              /\ ~IsCallOf("getState")) =>
            ReturnedValue' = ReturnedValue]_vars

\* C20 happens: the caller has written enabled = false into the returned
\* object, the engine's volume was set to 0.42 afterwards, and object and
\* engine differ in both fields.
C20_Witness ==
    /\ returned.held
    /\ lastOp.op = "setVolume" /\ lastOp.arg = 42
    /\ state.volume = JSNum(42) /\ ReturnedValue.volume = JSNum(DefaultVolume)
    /\ Truthy(state.enabled) /\ ReturnedValue.enabled = JSBool(FALSE)

---------------------------------------------------------------------------
(* The shape of a crossfade *)

\* C21: when playAmbient starts a new source, with or without a previous
\* one, the ambient-bus gain as scheduled is 0 from that moment until half
\* the crossfade length later, and 0.5 at the whole length.
C21_NewSourceStartsSilent ==
    [][StartsAmbient =>
          LET half == sources'[Len(sources')].half
          IN  /\ \A t \in currentTime..(currentTime + half) :
                    ValueAt(ambientEvents', t) = 0
              /\ ValueAt(ambientEvents', currentTime + 2 * half)
                    = AmbientBusGain]_vars

\* The last call is a playAmbient that found a source current, the source
\* of an earlier crossfade; the newest source was started for it, and its
\* crossfade has ended.
LatestCrossfadeEnded ==
    /\ lastOp.op = "playAmbient"
    /\ lastOp.src # 0
    /\ Len(sources) > lastOp.src
    /\ sources[Len(sources)].bus = "ambient"
    /\ sources[Len(sources)].cat = lastOp.arg
    /\ currentTime >= sources[Len(sources)].startedAt
                        + 2 * sources[Len(sources)].half

\* C22: once the latest crossfade has ended the ambient-bus gain is 0.5,
\* whatever an earlier crossfade scheduled, and a crossfade that finds a
\* current source leaves the gain at the time of the call as it was.
C22_LatestCrossfadeWins ==
    /\ [](LatestCrossfadeEnded => AmbientGainNow = AmbientBusGain)
    /\ [][(StartsAmbient /\ currentAmbientSource # 0) =>
            ValueAt(ambientEvents', currentTime)
                = ValueAt(ambientEvents, currentTime)]_vars

---------------------------------------------------------------------------
(* The asset cache *)

\* C23: an entry of the cache is never replaced or removed but by dispose(),
\* also when two loads of one URL settle one after the other.
C23_CacheEntryImmutable ==
    [][\A u \in Urls :
          (loadedBuffers[u] # NullBuffer /\ ~IsCallOf("dispose")) =>
              loadedBuffers'[u] = loadedBuffers[u]]_vars

---------------------------------------------------------------------------
(* stopAmbient *)

\* In this step source i, playing so far, is stopped.
Stopped(i) == sources[i].playing /\ ~sources'[i].playing

\* In this step a timer for source i that is due now runs.
TimerRunsFor(i) ==
    /\ Len(timers') = Len(timers) - 1
    /\ \E j \in 1..Len(timers) : timers[j].src = i /\ timers[j].due = now

\* C24: stopAmbient(fade) without a current source changes nothing; with one
\* it clears currentAmbience and the current source on return, leaves the
\* source playing, schedules the ambient-bus gain to be 0 at the end of the
\* fade and sets the one timer there is for that source, due at the end of
\* the fade; and a source is stopped only by a timer for it that is due.
C24_StopAmbient ==
    [][/\ (IsCallOf("stopAmbient") /\ ~StopAmbientGuard) =>
            UNCHANGED <<ambientEvents, timers, state, sources,
                        currentAmbientSource, currentAmbientBuffer>>
       /\ (IsCallOf("stopAmbient") /\ StopAmbientGuard) =>
            /\ state'.currentAmbience = NullAmbience
            /\ currentAmbientSource' = 0
            /\ sources' = sources
            /\ ValueAt(ambientEvents', currentTime + lastOp'.arg) = 0
            /\ \A j \in 1..Len(timers) : timers[j].src # currentAmbientSource
            /\ timers' = Append(timers, [src |-> currentAmbientSource,
                                         due |-> now + lastOp'.arg])
       /\ \A i \in 1..Len(sources) : Stopped(i) => TimerRunsFor(i)]_vars

\* C24 happens: the source that stopAmbient found was stopped by its timer
\* at the end of the fade, with the ambient-bus gain at 0 and no session.
C24_Witness ==
    /\ lastOp.op = "stopAmbient" /\ lastOp.src # 0
    /\ now = lastOp.at + lastOp.arg
    /\ ~sources[lastOp.src].playing
    /\ timers = <<>>
    /\ currentAmbientSource = 0 /\ state.currentAmbience = NullAmbience
    /\ AmbientGainNow = 0

---------------------------------------------------------------------------
(* Cues *)

\* The step is a playUI call or a step of one: the settlement of its fetch
\* or its continuation.
StepOfPlayUI ==
    \/ IsCallOf("playUI")
    \/ \E id \in 1..Len(calls) : StepOf(id) /\ calls[id].op = "playUI"

\* C25: no step of a playUI changes the session, the ambient-bus timeline,
\* the timers, the preferences or the store; and the continuation of every
\* playUI that passed the guard starts one source of its own on the cue
\* bus, playing once, of which the engine keeps no reference.
C25_CuesIndependent ==
    [][/\ StepOfPlayUI =>
            UNCHANGED <<state, storage, currentAmbientSource,
                        currentAmbientBuffer, ambientEvents, masterEvents,
                        timers>>
       /\ \A id \in 1..Len(calls) :
            (calls[id].op = "playUI" /\ LoadReturns(id)) =>
                /\ Len(sources') = Len(sources) + 1
                /\ SubSeq(sources', 1, Len(sources)) = sources
                /\ sources'[Len(sources')].bus = "ui"
                /\ sources'[Len(sources')].cat = calls[id].type
                /\ sources'[Len(sources')].buffer = calls[id].buffer
                /\ calls[id].buffer # NullBuffer
                /\ sources'[Len(sources')].playing
                /\ ~sources'[Len(sources')].loop
                /\ currentAmbientSource' # Len(sources')]_vars

\* C25 happens: two playUI('hover') calls overlapped (the second loaded for
\* itself, and differently) and each has its source playing on the cue bus.
C25_Witness ==
    /\ Len(sources) = 2
    /\ \A i \in 1..2 :
          sources[i].bus = "ui" /\ sources[i].cat = "hover"
              /\ sources[i].playing
    /\ sources[1].buffer # sources[2].buffer
    /\ currentAmbientSource = 0

---------------------------------------------------------------------------
(* Master gain *)

\* The value of the master gain at the current time.
MasterGainNow == ValueAt(masterEvents, currentTime)

\* Every master-gain ramp that was scheduled has elapsed.
MasterRampsElapsed == currentTime >= LastEventTime(masterEvents)

\* C26: on an initialized engine, after any setEnabled, toggle and setVolume
\* calls, once every scheduled master-gain ramp has elapsed the master gain
\* is the volume when the sound is enabled and 0 when it is disabled; and a
\* setVolume on a disabled engine schedules nothing on the master gain.
C26_MasterGainSettles ==
    /\ [](MasterRampsElapsed =>
            MasterGainNow = IF Truthy(state.enabled) THEN state.volume.n ELSE 0)
    /\ [][(IsCallOf("setVolume") /\ ~Truthy(state.enabled)) =>
            masterEvents' = masterEvents]_vars

---------------------------------------------------------------------------
(* Session consistency *)

\* No playAmbient call is between its first await and its return.
NoPlayAmbientPending ==
    \A id \in 1..Len(calls) : calls[id].op # "playAmbient"

\* C27: whenever no playAmbient continuation is pending, currentAmbience is
\* non-null exactly when a current ambient source is held, in every
\* interleaving of playAmbient, stopAmbient and setEnabled, a stopAmbient
\* between crossfadeAmbient's assignments and playAmbient's included.
C27_SessionConsistent ==
    NoPlayAmbientPending =>
        ((state.currentAmbience # NullAmbience) <=> (currentAmbientSource # 0))

---------------------------------------------------------------------------
(* Source leaks *)

\* The pending timers whose callback stops source i.
StopTimersOf(i) == {k \in 1..Len(timers) : timers[k].src = i}

\* C28: every ambient source that was started and is not the current source
\* has been stopped or has exactly one pending stop timer; so once every
\* timer has fired, no ambient source but the current one is playing.
C28_NoSourceLeak ==
    /\ \A i \in PlayingAmbient :
          i # currentAmbientSource => Cardinality(StopTimersOf(i)) = 1
    /\ timers = <<>> => PlayingAmbient \subseteq {currentAmbientSource}

\* C28 happens: of three sources started, the first was stopped by its
\* timer, the second plays on with its one timer pending and the third is
\* the current source.
C28_Witness ==
    /\ Len(sources) = 3
    /\ ~sources[1].playing
    /\ sources[2].playing /\ Cardinality(StopTimersOf(2)) = 1
    /\ currentAmbientSource = 3 /\ sources[3].playing

---------------------------------------------------------------------------
(* Loads in flight at dispose() *)

\* C29: a playAmbient or playUI that was awaiting its load when dispose()
\* ran does nothing afterwards: no step of it starts a source, puts an entry
\* into the cache or sets currentAmbience.
C29_NoEffectAfterDispose ==
    [][(~instance /\ \E id \in 1..Len(calls) : StepOf(id)) =>
          /\ sources' = sources
          /\ loadedBuffers' = loadedBuffers
          /\ state'.currentAmbience = state.currentAmbience]_vars

---------------------------------------------------------------------------
(* Hook instances *)

\* The step is a call of a play callback of hook instance h.
HookPlays(h) == hooks'[h].plays = hooks[h].plays + 1

\* The step calls the engine's playAmbient or playUI.
EnginePlayCalled == IsCallOf("playAmbient") \/ IsCallOf("playUI")

====
